---- MODULE Spec2Model ----
(***************************************************************************)
(* A model of the differentiable optimizers of rgreenblatt/optim:          *)
(* DifferentiableSGD (dif_sgd.py) over the DifferentiableOptimizer base    *)
(* and the parameter injector (utils.py).                                  *)
(*                                                                         *)
(* Tensors live in a heap (a sequence of records, the index is the         *)
(* identity of the tensor object), so that mutation in place, aliasing and *)
(* the autograd flags of a value are part of the state.  Every tensor is a *)
(* scalar with an integer value: the update rules are elementwise and are  *)
(* computed here in exact arithmetic.                                      *)
(***************************************************************************)
EXTENDS Integers, Sequences, FiniteSets, TLC

\* Bounds of the model.
MaxSteps == 2
MaxInjects == 1
MaxCalls == 1
MaxOps == 2

(***************************************************************************)
(* Python values                                                           *)
(***************************************************************************)

\* A dict is a sequence of <<key, value>> pairs in insertion order.
DictKeys(d) == {d[i][1] : i \in DOMAIN d}

DictHas(d, k) == k \in DictKeys(d)

DictGet(d, k) == d[CHOOSE i \in DOMAIN d : d[i][1] = k][2]

DictPut(d, k, v) ==
    IF DictHas(d, k)
    THEN [i \in DOMAIN d |-> IF d[i][1] = k THEN <<k, v>> ELSE d[i]]
    ELSE Append(d, <<k, v>>)

\* set(list)
SeqToSet(s) == {s[i] : i \in DOMAIN s}

\* None, as a gradient; a present gradient carries its value and whether it
\* is part of a differentiation graph (computed with create_graph).
None == [none |-> TRUE, val |-> 0, requires_grad |-> FALSE]

Grad(v, rg) == [none |-> FALSE, val |-> v, requires_grad |-> rg]

\* A value that is not a torch.Tensor, as a member of a group.
NotTensor == 0

(***************************************************************************)
(* Tensors and the heap                                                    *)
(***************************************************************************)

Tensor(v, rg, leaf) == [val |-> v, requires_grad |-> rg, is_leaf |-> leaf]

\* torch.zeros_like(p.data): a fresh leaf outside every graph.
zeros_like == Tensor(0, FALSE, TRUE)

\* The result of an out-of-place operation: it records its derivation exactly
\* when one of its operands requires grad.
Derived(v, rg) == Tensor(v, rg, ~rg)

\* nn.Parameter(...): a leaf that requires grad.
Parameter(v) == Tensor(v, TRUE, TRUE)

\* Allocation: the new tensor's identity is the next index of the heap.
NewId(heap) == Len(heap) + 1

Alloc(heap, t) == Append(heap, t)

\* t.detach_(): drops the derivation, keeps the content.
detach_(heap, id) ==
    [heap EXCEPT ![id] = Tensor(@.val, FALSE, TRUE)]

\* t.requires_grad_(True)
requires_grad_(heap, id) ==
    [heap EXCEPT ![id] = Tensor(@.val, TRUE, @.is_leaf)]

\* t.retain_grad(): no change of content, of requires_grad or of is_leaf.
retain_grad(heap, id) == heap

(***************************************************************************)
(* Hyperparameters: a constant, a schedule (a callable of the step number) *)
(* or the sentinel `required`.                                             *)
(***************************************************************************)

HPNames == {"lr", "momentum", "dampening", "weight_decay", "nesterov"}

Const(v) == [tag |-> "const", v |-> v, f |-> <<>>]

\* f is the callable's graph, f[step + 1] = value at step.
Sched(f) == [tag |-> "sched", v |-> 0, f |-> f]

required == [tag |-> "required", v |-> 0, f |-> <<>>]

callable(v) == v.tag = "sched"

\* _get reading the step number of the previous call, as if step incremented
\* the counter after resolving.
get_stale(step_number, v) ==
    IF callable(v) THEN v.f[step_number] ELSE v.v

\* DifferentiableSGD._get, with the step counter it reads.
_get(step_number, v) ==
    IF callable(v) THEN v.f[step_number + 1] ELSE v.v

(***************************************************************************)
(* ParameterSetter and set_all_parameters (utils.py)                       *)
(*                                                                         *)
(* The owner is the sequence named_modules() yields: records               *)
(* [prefix, _parameters, _buffers], the two slot tables being dicts from   *)
(* the local slot name to a tensor.                                        *)
(***************************************************************************)

\* A slot table overwritten on a match of the local slot name, without the
\* prefix.
SetSlotsLocal(mod_params, pref, new_params) ==
    [i \in DOMAIN mod_params |->
        IF DictHas(new_params, mod_params[i][1])
        THEN <<mod_params[i][1], DictGet(new_params, mod_params[i][1])>>
        ELSE mod_params[i]]

\* The slot table of one module after ParameterSetter.__call__.
SetSlots(mod_params, pref, new_params) ==
    [i \in DOMAIN mod_params |->
        IF DictHas(new_params, pref \o mod_params[i][1])
        THEN <<mod_params[i][1], DictGet(new_params, pref \o mod_params[i][1])>>
        ELSE mod_params[i]]

\* A match on the local slot name, without the prefix.
FoundInLocal(mod_params, pref, new_params) ==
    {i \in DOMAIN mod_params : DictHas(new_params, mod_params[i][1])}

\* The names of one slot table that ParameterSetter.__call__ finds.
FoundIn(mod_params, pref, new_params) ==
    {i \in DOMAIN mod_params : DictHas(new_params, pref \o mod_params[i][1])}

\* The flags of the installed values after ParameterSetter.__call__.
RECURSIVE MarkFound(_, _, _, _, _)
MarkFound(heap, mod_params, pref, new_params, i) ==
    IF i > Len(mod_params) THEN heap
    ELSE IF DictHas(new_params, pref \o mod_params[i][1])
    THEN LET t == DictGet(new_params, pref \o mod_params[i][1])
         IN MarkFound(IF heap[t].is_leaf THEN requires_grad_(heap, t)
                      ELSE retain_grad(heap, t),
                      mod_params, pref, new_params, i + 1)
    ELSE MarkFound(heap, mod_params, pref, new_params, i + 1)

\* ParameterSetter.__call__(prefix, module, requires_grad) on the setter
\* state st = [modules, heap, num_found], for module number m.
ParameterSetterCall(st, m, pref, new_params, requires_grad, is_buffer) ==
    LET module == st.modules[m]
        mod_params == IF is_buffer THEN module._buffers ELSE module._parameters
        slots == SetSlots(mod_params, pref, new_params)
    IN [modules |-> [st.modules EXCEPT ![m] =
                        IF is_buffer THEN [@ EXCEPT !._buffers = slots]
                        ELSE [@ EXCEPT !._parameters = slots]],
        heap |-> IF requires_grad /\ ~is_buffer
                 THEN MarkFound(st.heap, mod_params, pref, new_params, 1)
                 ELSE st.heap,
        num_found |-> st.num_found
                      + Cardinality(FoundIn(mod_params, pref, new_params))]

\* pref = "" if prefix == "" else prefix + "."
Pref(prefix) == IF prefix = "" THEN "" ELSE prefix \o "."

\* The loop of set_all_parameters over named_modules().
RECURSIVE SetterLoop(_, _, _, _, _)
SetterLoop(st, m, new_params, requires_grad, is_buffer) ==
    IF m > Len(st.modules) THEN st
    ELSE SetterLoop(ParameterSetterCall(st, m, Pref(st.modules[m].prefix),
                                        new_params, requires_grad, is_buffer),
                    m + 1, new_params, requires_grad, is_buffer)

\* set_all_parameters(top_module, new_params, requires_grad, is_buffer):
\* the owner and the heap afterwards, and whether the final assert failed.
set_all_parameters(modules, heap, new_params, requires_grad, is_buffer) ==
    LET st == SetterLoop([modules |-> modules, heap |-> heap, num_found |-> 0],
                         1, new_params, requires_grad, is_buffer)
    IN [modules |-> st.modules, heap |-> st.heap, num_found |-> st.num_found,
        err |-> IF st.num_found = Len(new_params) THEN "" ELSE "AssertionError"]

(***************************************************************************)
(* The optimizer object                                                    *)
(*                                                                         *)
(* A world w holds one DifferentiableSGD instance with the module it       *)
(* optimizes and the tensors both refer to:                                *)
(*   heap, modules        the tensors and the owner's slots                *)
(*   layout               how the owner groups its parameters              *)
(*   state, state_tup     self.state, its str keys and its tuple keys      *)
(*   step_number, param_groups, defaults, use_in_place                     *)
(*   resolved             per group, what each _get call of the last step  *)
(*                        read and returned                                *)
(*   err                  the exception the last call raised, "" if none   *)
(***************************************************************************)

\* The tensor in the parameter slot with the dotted name.
SlotAt(modules, dotted) ==
    LET m == CHOOSE m \in DOMAIN modules :
                 \E i \in DOMAIN modules[m]._parameters :
                     Pref(modules[m].prefix) \o modules[m]._parameters[i][1] = dotted
    IN DictGet(modules[m]._parameters,
               CHOOSE n \in DictKeys(modules[m]._parameters) :
                   Pref(modules[m].prefix) \o n = dotted)

\* module.get_optim_parameters(sched): the owner's groups, each a dict with
\* 'params': (setter, [(name, value), ...]) and its own hyperparameters.
get_optim_parameters(w) ==
    [g \in DOMAIN w.layout |->
        [members |-> [k \in DOMAIN w.layout[g].members |->
                         <<w.layout[g].members[k],
                           SlotAt(w.modules, w.layout[g].members[k])>>],
         is_set |-> FALSE,
         hp |-> w.layout[g].hp]]

\* No duplicate test at all.
IsDisjointAlways(param_groups, members) == TRUE

\* The duplicate test of add_param_group: the members of the registered
\* groups and those of the new group, as sets of (name, tensor) tuples.
IsDisjoint(param_groups, members) ==
    (UNION {SeqToSet(param_groups[g].members) : g \in DOMAIN param_groups})
        \cap SeqToSet(members) = {}

\* DifferentiableOptimizer.add_param_group
add_param_group(w, param_group) ==
    IF param_group.is_set
    THEN [w EXCEPT !.err = "TypeError"]
    ELSE IF \E i \in DOMAIN param_group.members :
                param_group.members[i][2] = NotTensor
    THEN [w EXCEPT !.err = "TypeError"]
    ELSE IF \E name \in HPNames :
                w.defaults[name] = required /\ ~DictHas(param_group.hp, name)
    THEN [w EXCEPT !.err = "ValueError"]
    ELSE IF ~IsDisjoint(w.param_groups, param_group.members)
    THEN [w EXCEPT !.err = "ValueError"]
    ELSE [w EXCEPT !.param_groups = Append(@,
            [members |-> param_group.members,
             hp |-> [name \in HPNames |->
                        IF DictHas(param_group.hp, name)
                        THEN DictGet(param_group.hp, name)
                        ELSE w.defaults[name]]])]

\* isinstance(x, dict), for an element of what the owner returns: a group is
\* a dict, a named value is the tuple (name, value).
IsDict(x) == "members" \in DOMAIN x

NamedValue(name, value) == [name |-> name, value |-> value]

\* add_param_group for the dict {'params': flat} that get_param_groups
\* builds around a flat list of named values.  params = param_group
\* ['params'][1] is the second named value, list(params) is [name, value],
\* and the loop over it tests param[1] for its first element, the name.
AddFlatGroup(w, flat) ==
    IF Len(flat) < 2 THEN [w EXCEPT !.err = "IndexError"]
    ELSE IF Len(flat[2].name) < 2 THEN [w EXCEPT !.err = "IndexError"]
    ELSE [w EXCEPT !.err = "TypeError"]

\* The loop of get_param_groups over the groups.
RECURSIVE AddGroups(_, _, _)
AddGroups(w, params, i) ==
    IF i > Len(params) THEN w
    ELSE IF ~IsDict(params[i]) THEN [w EXCEPT !.err = "AssertionError"]
    ELSE LET r == add_param_group(w, params[i])
         IN IF r.err # "" THEN r ELSE AddGroups(r, params, i + 1)

\* DifferentiableOptimizer.get_param_groups, params being what
\* module.get_optim_parameters returned.
get_param_groups(w, params) ==
    LET w0 == [w EXCEPT !.param_groups = <<>>]
    IN IF Len(params) = 0 THEN [w0 EXCEPT !.err = "ValueError"]
       ELSE IF ~IsDict(params[1]) THEN AddFlatGroup(w0, params)
       ELSE AddGroups(w0, params, 1)

(***************************************************************************)
(* DifferentiableSGD.step (dif_sgd.py)                                     *)
(***************************************************************************)

\* buf.mul_(m) without the multiplication.
add_only_(heap, id, m, c, d_p) ==
    [heap EXCEPT ![id] =
        Tensor(@.val + c * d_p.val,
               @.requires_grad \/ d_p.requires_grad,
               IF @.requires_grad \/ d_p.requires_grad THEN FALSE ELSE @.is_leaf)]

\* buf.mul_(m).add_(c, d_p): the tensor id of the heap is changed in place;
\* it joins the graph of d_p when d_p is part of one.
mul_add_(heap, id, m, c, d_p) ==
    [heap EXCEPT ![id] =
        Tensor(@.val * m + c * d_p.val,
               @.requires_grad \/ d_p.requires_grad,
               IF @.requires_grad \/ d_p.requires_grad THEN FALSE ELSE @.is_leaf)]

\* buf = buf.mul_(m) + c * d_p: the stored buffer is scaled in place.
mul_add_scaling(heap, id, m, c, d_p) ==
    Alloc([heap EXCEPT ![id].val = @ * m],
          Derived(heap[id].val * m + c * d_p.val,
                  heap[id].requires_grad \/ d_p.requires_grad))

\* buf = buf * m + c * d_p: a new tensor, the one at id is left as it is.
mul_add(heap, id, m, c, d_p) ==
    Alloc(heap, Derived(heap[id].val * m + c * d_p.val,
                        heap[id].requires_grad \/ d_p.requires_grad))

\* The six _get calls at the head of the group loop: for each, the step
\* number it read and the value it returned.
ResolveGroup(w, group) ==
    [h \in HPNames \cup {"wd"} |->
        [at |-> w.step_number,
         val |-> _get(w.step_number,
                      group.hp[IF h = "wd" THEN "weight_decay" ELSE h])]]

\* The momentum branch with one record of the state for every name: the
\* record under "a" is read and written whatever the name is.
MomentumUpdateShared(w, hp, name, d_p) ==
    LET param_state == IF DictHas(w.state, "a") THEN DictGet(w.state, "a")
                       ELSE <<>>
        first == ~DictHas(param_state, "momentum_buffer")
        old == IF first THEN NewId(w.heap)
               ELSE DictGet(param_state, "momentum_buffer")
        buf == IF w.use_in_place THEN old ELSE NewId(w.heap)
        heap == IF w.use_in_place
                THEN IF first
                     THEN mul_add_(Alloc(w.heap, zeros_like), buf,
                                   hp.momentum.val, 1, d_p)
                     ELSE mul_add_(w.heap, buf, hp.momentum.val,
                                   1 - hp.dampening.val, d_p)
                ELSE IF first
                     THEN Alloc(w.heap, Derived(d_p.val, d_p.requires_grad))
                     ELSE mul_add(w.heap, old, hp.momentum.val,
                                  1 - hp.dampening.val, d_p)
    IN [w |-> [w EXCEPT !.heap = heap,
                        !.state = DictPut(@, "a",
                                    DictPut(param_state, "momentum_buffer", buf))],
        d_p |-> IF hp.nesterov.val # 0
                THEN Grad(d_p.val + hp.momentum.val * heap[buf].val,
                          d_p.requires_grad \/ heap[buf].requires_grad)
                ELSE Grad(heap[buf].val, heap[buf].requires_grad)]

\* The momentum branch of step for one parameter with a present gradient:
\* the world afterwards and the update direction d_p.
MomentumUpdate(w, hp, name, d_p) ==
    LET param_state == IF DictHas(w.state, name) THEN DictGet(w.state, name)
                       ELSE <<>>
        first == ~DictHas(param_state, "momentum_buffer")
        old == IF first THEN NewId(w.heap)
               ELSE DictGet(param_state, "momentum_buffer")
        buf == IF w.use_in_place THEN old ELSE NewId(w.heap)
        heap == IF w.use_in_place
                THEN IF first
                     THEN mul_add_(Alloc(w.heap, zeros_like), buf,
                                   hp.momentum.val, 1, d_p)
                     ELSE mul_add_(w.heap, buf, hp.momentum.val,
                                   1 - hp.dampening.val, d_p)
                ELSE IF first
                     THEN Alloc(w.heap,
                                Derived(zeros_like.val * hp.momentum.val + d_p.val,
                                        zeros_like.requires_grad
                                            \/ d_p.requires_grad))
                     ELSE mul_add(w.heap, old, hp.momentum.val,
                                  1 - hp.dampening.val, d_p)
    IN [w |-> [w EXCEPT !.heap = heap,
                        !.state = DictPut(@, name,
                                    DictPut(param_state, "momentum_buffer", buf))],
        d_p |-> IF hp.nesterov.val # 0
                THEN Grad(d_p.val + hp.momentum.val * heap[buf].val,
                          d_p.requires_grad \/ heap[buf].requires_grad)
                ELSE Grad(heap[buf].val, heap[buf].requires_grad)]

\* The two decrements in the other order: the decay sees the updated value.
InPlaceParamDecayLast(heap, p, lr, wd, d_p) ==
    LET h1 == [heap EXCEPT ![p].val = @ + (-lr) * d_p.val]
    IN [h1 EXCEPT ![p].val = @ + (-lr * wd) * h1[p].val]

\* p.data.add_(-lr*wd, p); p.data.add_(-lr, d_p)
InPlaceParam(heap, p, lr, wd, d_p) ==
    LET h1 == [heap EXCEPT ![p].val = @ + (-lr * wd) * heap[p].val]
    IN [h1 EXCEPT ![p].val = @ + (-lr) * d_p.val]

\* new_p = p - lr * d_p - wd * lr * p
NewParam(heap, p, lr, wd, d_p) ==
    Derived(heap[p].val - lr * d_p.val - wd * lr * heap[p].val,
            heap[p].requires_grad \/ d_p.requires_grad)

\* A None that does not consume its slot of grads.
SkipAbsentKeepSlot(acc, name, p) ==
    [acc EXCEPT !.new_params = DictPut(@, name, p)]

\* The parameter loop at a gradient that is None: the slot of grads is
\* consumed and the parameter is carried into new_params as it is.
SkipAbsent(acc, name, p) ==
    [acc EXCEPT !.p_num = @ + 1, !.new_params = DictPut(@, name, p)]

\* The body of the parameter loop without the test of the momentum: the
\* momentum branch is taken for every present gradient.
StepParamAlwaysMomentum(acc, hp, name, p, grads) ==
    LET d_p == grads[acc.p_num + 1]
    IN IF d_p.none
       THEN SkipAbsent(acc, name, p)
       ELSE LET m == MomentumUpdate(acc.w, hp, name, d_p)
            IN IF acc.w.use_in_place
               THEN [w |-> [m.w EXCEPT !.heap =
                               InPlaceParam(@, p, hp.lr.val, hp.wd.val, m.d_p)],
                     new_params |-> acc.new_params,
                     p_num |-> acc.p_num + 1]
               ELSE [w |-> [m.w EXCEPT !.heap =
                               Alloc(@, NewParam(m.w.heap, p, hp.lr.val,
                                                 hp.wd.val, m.d_p))],
                     new_params |-> DictPut(acc.new_params, name,
                                            NewId(m.w.heap)),
                     p_num |-> acc.p_num + 1]

\* The body of the parameter loop for (name, p); acc = [w, new_params, p_num].
StepParam(acc, hp, name, p, grads) ==
    LET d_p == grads[acc.p_num + 1]
    IN IF d_p.none
       THEN SkipAbsent(acc, name, p)
       ELSE LET m == IF hp.momentum.val # 0
                     THEN MomentumUpdate(acc.w, hp, name, d_p)
                     ELSE [w |-> acc.w, d_p |-> d_p]
            IN IF acc.w.use_in_place
               THEN [w |-> [m.w EXCEPT !.heap =
                               InPlaceParam(@, p, hp.lr.val, hp.wd.val, m.d_p)],
                     new_params |-> acc.new_params,
                     p_num |-> acc.p_num + 1]
               ELSE [w |-> [m.w EXCEPT !.heap =
                               Alloc(@, NewParam(m.w.heap, p, hp.lr.val,
                                                 hp.wd.val, m.d_p))],
                     new_params |-> DictPut(acc.new_params, name,
                                            NewId(m.w.heap)),
                     p_num |-> acc.p_num + 1]

RECURSIVE ParamLoop(_, _, _, _, _)
ParamLoop(acc, hp, members, grads, k) ==
    IF k > Len(members) THEN acc
    ELSE ParamLoop(StepParam(acc, hp, members[k][1], members[k][2], grads),
                   hp, members, grads, k + 1)

\* setter_creator(module)'s setter, as step calls it.
setter(w, params, requires_grad) ==
    LET r == set_all_parameters(w.modules, w.heap, params, requires_grad, FALSE)
    IN [w EXCEPT !.modules = r.modules, !.heap = r.heap, !.err = r.err]

\* The body of the group loop for group g; acc = [w, p_num].
StepGroup(acc, g, grads) ==
    LET group == acc.w.param_groups[g]
        hp == ResolveGroup(acc.w, group)
        w0 == [acc.w EXCEPT !.resolved = Append(@, hp)]
        r == ParamLoop([w |-> w0, new_params |-> <<>>, p_num |-> acc.p_num],
                       hp, group.members, grads, 1)
    IN IF ~r.w.use_in_place
       THEN [w |-> setter([r.w EXCEPT !.param_groups[g].members = r.new_params],
                          r.new_params, FALSE),
             p_num |-> r.p_num]
       ELSE [w |-> r.w, p_num |-> r.p_num]

RECURSIVE GroupLoop(_, _, _)
GroupLoop(acc, grads, g) ==
    IF g > Len(acc.w.param_groups) \/ acc.w.err # "" THEN acc
    ELSE GroupLoop(StepGroup(acc, g, grads), grads, g + 1)

\* self.step_number += 1
IncrementStep(w) == [w EXCEPT !.step_number = @ + 1]

\* DifferentiableSGD.step(grads)
step(w, grads) ==
    LET w1 == IncrementStep([w EXCEPT !.err = "", !.resolved = <<>>])
        w2 == get_param_groups(w1, get_optim_parameters(w1))
    IN IF w2.err # "" THEN w2
       ELSE GroupLoop([w |-> w2, p_num |-> 0], grads, 1).w

(***************************************************************************)
(* DifferentiableOptimizer.forget (utils.py)                               *)
(***************************************************************************)

\* for key in param_state: param_state[key].detach_()
RECURSIVE DetachAll(_, _, _)
DetachAll(heap, param_state, k) ==
    IF k > Len(param_state) THEN heap
    ELSE DetachAll(detach_(heap, param_state[k][2]), param_state, k + 1)

\* A forget that drops what the state holds under the name.
ForgetParamDrop(w, i, name, p) ==
    [w EXCEPT !.state = DictPut(@, name, <<>>),
              !.heap = requires_grad_(detach_(@, p), p)]

\* The body of forget's loops for member (name, p) of group number i
\* (enumerate counts from 0): self.state[(i, name)] is read, which creates
\* the entry of the defaultdict when it is absent.
ForgetParam(w, i, name, p) ==
    LET param_state == IF DictHas(w.state_tup, <<i, name>>)
                       THEN DictGet(w.state_tup, <<i, name>>)
                       ELSE <<>>
    IN [w EXCEPT !.state_tup = DictPut(@, <<i, name>>, param_state),
                 !.heap = requires_grad_(
                              detach_(DetachAll(@, param_state, 1), p), p)]

RECURSIVE ForgetMembers(_, _, _)
ForgetMembers(w, g, k) ==
    IF k > Len(w.param_groups[g].members) THEN w
    ELSE ForgetMembers(ForgetParam(w, g - 1, w.param_groups[g].members[k][1],
                                   w.param_groups[g].members[k][2]),
                       g, k + 1)

RECURSIVE ForgetGroups(_, _)
ForgetGroups(w, g) ==
    IF g > Len(w.param_groups) THEN w
    ELSE ForgetGroups(ForgetMembers(w, g, 1), g + 1)

\* DifferentiableOptimizer.forget()
forget(w) ==
    LET w1 == get_param_groups([w EXCEPT !.err = ""], get_optim_parameters(w))
    IN IF w1.err # "" THEN w1 ELSE ForgetGroups(w1, 1)

(***************************************************************************)
(* DifferentiableSGD.get_state and load_state (dif_sgd.py)                 *)
(***************************************************************************)

\* self.state[name], which creates the entry of the defaultdict when it is
\* absent.
ParamState(w, name) ==
    IF DictHas(w.state, name) THEN DictGet(w.state, name) ELSE <<>>

\* The body of get_state's loops for member (name, p) of a group whose
\* momentum resolved to momentum; acc = [w, out_state].  Without a buffer
\* under the name, out_state[name] = ... raises KeyError.
GetStateParam(acc, momentum, name, p) ==
    LET param_state == ParamState(acc.w, name)
        create == momentum # 0 /\ ~DictHas(param_state, "momentum_buffer")
        ps1 == IF create
               THEN DictPut(param_state, "momentum_buffer", NewId(acc.w.heap))
               ELSE param_state
        w1 == [acc.w EXCEPT !.heap = IF create THEN Alloc(@, zeros_like) ELSE @,
                            !.state = DictPut(@, name, ps1)]
    IN IF DictHas(ps1, "momentum_buffer")
       THEN [w |-> w1,
             out_state |-> DictPut(acc.out_state, name,
                                   DictGet(ps1, "momentum_buffer"))]
       ELSE [w |-> [w1 EXCEPT !.err = "KeyError"], out_state |-> acc.out_state]

RECURSIVE GetStateMembers(_, _, _, _)
GetStateMembers(acc, momentum, members, k) ==
    IF k > Len(members) \/ acc.w.err # "" THEN acc
    ELSE GetStateMembers(GetStateParam(acc, momentum, members[k][1],
                                       members[k][2]),
                         momentum, members, k + 1)

RECURSIVE GetStateGroups(_, _)
GetStateGroups(acc, g) ==
    IF g > Len(acc.w.param_groups) \/ acc.w.err # "" THEN acc
    ELSE GetStateGroups(
             GetStateMembers(acc,
                             _get(acc.w.step_number,
                                  acc.w.param_groups[g].hp.momentum),
                             acc.w.param_groups[g].members, 1),
             g + 1)

\* DifferentiableSGD.get_state(): the instance afterwards and the dict of
\* the list returned.
get_state(w) ==
    GetStateGroups([w |-> [w EXCEPT !.err = ""], out_state |-> <<>>], 1)

\* self.state[name]['momentum_buffer'] = state[name]
LoadStateParam(w, state, name) ==
    IF ~DictHas(state, name) THEN [w EXCEPT !.err = "KeyError"]
    ELSE [w EXCEPT !.state =
            DictPut(@, name, DictPut(ParamState(w, name), "momentum_buffer",
                                     DictGet(state, name)))]

RECURSIVE LoadStateMembers(_, _, _, _)
LoadStateMembers(w, state, members, k) ==
    IF k > Len(members) \/ w.err # "" THEN w
    ELSE LoadStateMembers(LoadStateParam(w, state, members[k][1]),
                          state, members, k + 1)

RECURSIVE LoadStateGroups(_, _, _)
LoadStateGroups(w, state, g) ==
    IF g > Len(w.param_groups) \/ w.err # "" THEN w
    ELSE LoadStateGroups(LoadStateMembers(w, state,
                                          w.param_groups[g].members, 1),
                         state, g + 1)

\* DifferentiableSGD.load_state(state), state being a list of dicts.
load_state(w, state) ==
    IF Len(state) # 1 THEN [w EXCEPT !.err = "AssertionError"]
    ELSE LoadStateGroups([w EXCEPT !.err = ""], state[1], 1)

(***************************************************************************)
(* DifferentiableSGD.__init__ (dif_sgd.py)                                 *)
(***************************************************************************)

\* The range checks without the Nesterov check.
ValidateRangesOnly(lr, momentum, dampening, weight_decay, nesterov) ==
    IF lr # required /\ ~callable(lr) /\ lr.v < 0 THEN "ValueError"
    ELSE IF ~callable(momentum) /\ momentum.v < 0 THEN "ValueError"
    ELSE IF ~callable(weight_decay) /\ weight_decay.v < 0 THEN "ValueError"
    ELSE ""

\* The Nesterov check without the range checks.
ValidateNesterovOnly(lr, momentum, dampening, weight_decay, nesterov) ==
    IF /\ ~callable(nesterov)
       /\ nesterov.v # 0
       /\ \/ ~callable(momentum) /\ momentum.v <= 0
          \/ dampening # Const(0)
    THEN "ValueError"
    ELSE ""

\* The four range checks of __init__: the exception raised, "" if none.
Validate(lr, momentum, dampening, weight_decay, nesterov) ==
    IF lr # required /\ ~callable(lr) /\ lr.v < 0 THEN "ValueError"
    ELSE IF ~callable(momentum) /\ momentum.v < 0 THEN "ValueError"
    ELSE IF ~callable(weight_decay) /\ weight_decay.v < 0 THEN "ValueError"
    ELSE IF /\ ~callable(nesterov)
            /\ nesterov.v # 0
            /\ \/ ~callable(momentum) /\ momentum.v <= 0
               \/ dampening # Const(0)
    THEN "ValueError"
    ELSE ""

\* DifferentiableSGD(module, sched, lr, momentum, dampening, weight_decay,
\* nesterov, use_in_place), the module being owner = [heap, modules, layout].
DifferentiableSGD(owner, hps, use_in_place) ==
    LET w == [heap |-> owner.heap, modules |-> owner.modules,
              layout |-> owner.layout,
              state |-> <<>>, state_tup |-> <<>>,
              step_number |-> 0, param_groups |-> <<>>,
              defaults |-> hps, use_in_place |-> use_in_place,
              resolved |-> <<>>,
              err |-> Validate(hps.lr, hps.momentum, hps.dampening,
                               hps.weight_decay, hps.nesterov)]
    IN IF w.err # "" THEN w
       ELSE get_param_groups(w, get_optim_parameters(w))

(***************************************************************************)
(* Adam (adam.py)                                                          *)
(*                                                                         *)
(* An instance holds the parameters' data (one integer per parameter,      *)
(* changed in place), the groups, self.state per parameter, the step       *)
(* counter and, per gradient position of the last step, the exponent that  *)
(* the bias correction was computed with.                                  *)
(***************************************************************************)

\* math.sqrt and Tensor.sqrt, on the squares the model meets.
sqrt(n) == CHOOSE r \in 0..n : r * r = n

\* torch.max(a, b)
Max(a, b) == IF a >= b THEN a ELSE b

\* Adam.get
get(step_number, v) ==
    IF callable(v) THEN v.f[step_number + 1] ELSE v.v

\* The four range checks of Adam.__init__: the exception raised, "" if none.
AdamValidate(lr, betas, eps) ==
    IF ~callable(lr) /\ ~(0 <= lr.v) THEN "ValueError"
    ELSE IF ~callable(eps) /\ ~(0 <= eps.v) THEN "ValueError"
    ELSE IF ~callable(betas[1]) /\ ~(0 <= betas[1].v /\ betas[1].v < 1)
    THEN "ValueError"
    ELSE IF ~callable(betas[2]) /\ ~(0 <= betas[2].v /\ betas[2].v < 1)
    THEN "ValueError"
    ELSE ""

\* Adam(params, lr, betas, eps, weight_decay, amsgrad, initial_step_number),
\* params being groups of parameters with hyperparameters of their own.
Adam(data, groups, initial_step_number) ==
    [data |-> data, param_groups |-> groups,
     state |-> [p \in DOMAIN data |-> <<>>],
     step_number |-> initial_step_number,
     exponents |-> <<>>,
     err |-> IF \E g \in DOMAIN groups :
                   AdamValidate(groups[g].lr, groups[g].betas, groups[g].eps) # ""
             THEN "ValueError" ELSE ""]

\* State initialization, when len(state) == 0.
AdamInitState(amsgrad) ==
    IF amsgrad
    THEN << <<"step", 0>>, <<"exp_avg", 0>>, <<"exp_avg_sq", 0>>,
            <<"max_exp_avg_sq", 0>> >>
    ELSE << <<"step", 0>>, <<"exp_avg", 0>>, <<"exp_avg_sq", 0>> >>

\* The exponent taken from the step counter of the optimizer.
BiasExponentCounter(state, step_number) == step_number

\* The exponent of beta1 and beta2 in the bias corrections.
BiasExponent(state, step_number) == DictGet(state, "step")

\* The body of the parameter loop of Adam.step for parameter p of the group
\* with a present gradient.
AdamUpdate(w, group, p, grad) ==
    LET amsgrad == get(w.step_number, group.amsgrad) # 0
        lr == get(w.step_number, group.lr)
        wd == get(w.step_number, group.weight_decay)
        beta1 == get(w.step_number, group.betas[1])
        beta2 == get(w.step_number, group.betas[2])
        state0 == IF Len(w.state[p]) = 0 THEN AdamInitState(amsgrad)
                  ELSE w.state[p]
        state1 == DictPut(state0, "step", DictGet(state0, "step") + 1)
        exp_avg == DictGet(state1, "exp_avg") * beta1 + (1 - beta1) * grad.val
        exp_avg_sq == DictGet(state1, "exp_avg_sq") * beta2
                          + (1 - beta2) * grad.val * grad.val
        max_exp_avg_sq == IF amsgrad
                          THEN Max(DictGet(state1, "max_exp_avg_sq"), exp_avg_sq)
                          ELSE 0
        state2 == DictPut(DictPut(state1, "exp_avg", exp_avg),
                          "exp_avg_sq", exp_avg_sq)
        state3 == IF amsgrad
                  THEN DictPut(state2, "max_exp_avg_sq", max_exp_avg_sq)
                  ELSE state2
        denom == sqrt(IF amsgrad THEN max_exp_avg_sq ELSE exp_avg_sq)
                     + group.eps.v
        t == BiasExponent(state3, w.step_number)
        bias_correction1 == 1 - beta1 ^ t
        bias_correction2 == 1 - beta2 ^ t
        step_size == (lr * sqrt(bias_correction2)) \div bias_correction1
        data1 == w.data[p] + (-wd * lr) * w.data[p]
        data2 == data1 + ((-step_size) * exp_avg) \div denom
    IN [w EXCEPT !.state[p] = state3,
                 !.data[p] = data2,
                 !.exponents = Append(@, [p |-> p, t |-> t])]

\* The two loops of Adam.step from member k of group g on; acc = [w, p_num].
RECURSIVE AdamLoop(_, _, _, _)
AdamLoop(acc, grads, g, k) ==
    IF g > Len(acc.w.param_groups) THEN acc
    ELSE IF k > Len(acc.w.param_groups[g].params)
    THEN AdamLoop(acc, grads, g + 1, 1)
    ELSE LET grad == grads[acc.p_num + 1]
             p == acc.w.param_groups[g].params[k]
         IN AdamLoop([w |-> IF grad.none THEN acc.w
                            ELSE AdamUpdate(acc.w, acc.w.param_groups[g], p, grad),
                      p_num |-> acc.p_num + 1],
                     grads, g, k + 1)

\* Adam.step(grads)
AdamStep(w, grads) ==
    AdamLoop([w |-> [w EXCEPT !.step_number = @ + 1, !.exponents = <<>>,
                              !.err = ""],
              p_num |-> 0], grads, 1, 1).w

(***************************************************************************)
(* The environment: the owning module and the hyperparameters given        *)
(***************************************************************************)

\* The schedule step -> step + k, over the steps of the model.
Linear(k) == Sched([s \in 1..(MaxSteps + 1) |-> s - 1 + k])

\* The schedule step -> k - step, over the steps of the model.
Falling(k) == Sched([s \in 1..(MaxSteps + 1) |-> k - (s - 1)])

\* A module with the parameter a and the buffer r, and a submodule sub with
\* the parameter b; it gives each parameter a group of its own, with the
\* hyperparameters hp1 and hp2 of their own.
Owner(hp1, hp2) ==
    [heap |-> <<Parameter(5), Parameter(-3), zeros_like>>,
     modules |-> <<[prefix |-> "", _parameters |-> << <<"a", 1>> >>,
                    _buffers |-> << <<"r", 3>> >>],
                   [prefix |-> "sub", _parameters |-> << <<"b", 2>> >>,
                    _buffers |-> <<>>]>>,
     layout |-> <<[members |-> <<"a">>, hp |-> hp1],
                  [members |-> <<"sub.b">>, hp |-> hp2]>>]

HP(lr, momentum, dampening, weight_decay, nesterov) ==
    [lr |-> lr, momentum |-> momentum, dampening |-> dampening,
     weight_decay |-> weight_decay, nesterov |-> nesterov]

\* The hyperparameters an optimizer is constructed with (hps), the two
\* groups' own (hp1, hp2) and whether the caller computes its gradients with
\* create_graph (cg): constants and schedules, with and without momentum,
\* dampening, weight decay and Nesterov.
Configs ==
    {[hps |-> HP(Const(1), Const(0), Const(0), Const(0), Const(0)),
      hp1 |-> <<>>, hp2 |-> << <<"momentum", Falling(2)>> >>, cg |-> FALSE],
     [hps |-> HP(Const(1), Const(2), Const(0), Const(0), Const(0)),
      hp1 |-> <<>>, hp2 |-> <<>>, cg |-> TRUE],
     [hps |-> HP(Const(2), Const(2), Const(2), Const(1), Const(0)),
      hp1 |-> <<>>,
      hp2 |-> << <<"lr", Const(1)>>, <<"momentum", Const(0)>> >>, cg |-> FALSE],
     [hps |-> HP(Const(1), Const(2), Const(0), Const(1), Const(1)),
      hp1 |-> <<>>, hp2 |-> << <<"lr", Linear(1)>> >>, cg |-> TRUE],
     [hps |-> HP(Linear(0), Linear(0), Linear(0), Linear(-1), Linear(-1)),
      hp1 |-> <<>>, hp2 |-> <<>>, cg |-> TRUE],
     [hps |-> HP(Const(1), Linear(-1), Const(2), Const(0), Const(0)),
      hp1 |-> <<>>,
      hp2 |-> << <<"momentum", Const(3)>>, <<"dampening", Const(-1)>>,
                 <<"weight_decay", Const(2)>> >>, cg |-> TRUE],
     [hps |-> HP(required, Const(3), Const(3), Const(0), Const(0)),
      hp1 |-> << <<"lr", Const(1)>> >>,
      hp2 |-> << <<"lr", Const(2)>> >>, cg |-> FALSE]}

\* The values of the gradients a caller passes.
GradValues == {1, 2}

\* The gradient lists a caller passes: one entry per parameter, each None or
\* a value, part of a differentiation graph when the caller computes its
\* gradients with create_graph.
GradLists(cg) == [1..2 -> {None} \cup {Grad(v, cg) : v \in GradValues}]

(***************************************************************************)
(* The state machine: a functional instance (opt) and an in-place instance *)
(* (twin) constructed alike, each on a module of its own, and driven by    *)
(* the same calls.                                                         *)
(*   last    the last call: its name, its gradients, and the two instances *)
(*           and fed as they were before it                                *)
(*   calls   the number of step calls made                                 *)
(*   fed     the names that have received a present gradient in a step     *)
(*           whose momentum was not 0                                      *)
(***************************************************************************)
VARIABLES opt, twin, last, calls, fed, create_graph

vars == <<opt, twin, last, calls, fed, create_graph>>

\* The hyperparameter h of group g at step k, as constructed: the group's own
\* value, else the optimizer's default, a schedule taken at k.
ValueAt(v, k) == IF v.tag = "sched" THEN v.f[k + 1] ELSE v.v

GroupHP(w, g, h, k) ==
    ValueAt(IF DictHas(w.layout[g].hp, h) THEN DictGet(w.layout[g].hp, h)
            ELSE w.defaults[h], k)

\* The parameters in group-then-member order: <<group, name>> per position.
RECURSIVE Flatten(_, _)
Flatten(layout, g) ==
    IF g > Len(layout) THEN <<>>
    ELSE [k \in DOMAIN layout[g].members |-> <<g, layout[g].members[k]>>]
         \o Flatten(layout, g + 1)

Positions(w) == Flatten(w.layout, 1)

Init ==
    \E c \in Configs :
        /\ create_graph = c.cg
        /\ opt = DifferentiableSGD(Owner(c.hp1, c.hp2), c.hps, FALSE)
        /\ twin = DifferentiableSGD(Owner(c.hp1, c.hp2), c.hps, TRUE)
        /\ opt.err = ""
        /\ calls = 0
        /\ fed = {}
        /\ last = [op |-> "init", grads |-> <<>>, opt |-> opt, twin |-> twin,
                   fed |-> {}]

Step ==
    /\ opt.step_number < MaxSteps
    /\ \E grads \in GradLists(create_graph) :
        /\ opt' = step(opt, grads)
        /\ twin' = step(twin, grads)
        /\ last' = [op |-> "step", grads |-> grads, opt |-> opt, twin |-> twin,
                    fed |-> fed]
        /\ fed' = fed \cup
                {Positions(opt)[i][2] : i \in
                    {j \in DOMAIN grads :
                        /\ ~grads[j].none
                        /\ GroupHP(opt, Positions(opt)[j][1], "momentum",
                                   calls + 1) # 0}}
    /\ calls' = calls + 1
    /\ UNCHANGED create_graph

Forget ==
    /\ opt' = forget(opt)
    /\ twin' = forget(twin)
    /\ last' = [op |-> "forget", grads |-> <<>>, opt |-> opt, twin |-> twin,
                fed |-> fed]
    /\ UNCHANGED <<calls, fed, create_graph>>

Next == Step \/ Forget

Spec == Init /\ [][Next]_vars

(***************************************************************************)
(* The injector on its own: set_all_parameters called on a module tree     *)
(* with any named values, for parameters or buffers.  opt is the tree and  *)
(* the heap, last the call and the tree before it.                         *)
(***************************************************************************)

\* A module with the parameter w and the buffer r, and a submodule sub with
\* a parameter w of its own; two more tensors to install, a leaf outside
\* every graph and a derived value.
InjOwner ==
    [heap |-> <<Parameter(1), zeros_like, Parameter(3),
                Tensor(4, FALSE, TRUE), Tensor(5, TRUE, FALSE)>>,
     modules |-> <<[prefix |-> "", _parameters |-> << <<"w", 1>> >>,
                    _buffers |-> << <<"r", 2>> >>],
                   [prefix |-> "sub", _parameters |-> << <<"w", 3>> >>,
                    _buffers |-> <<>>]>>]

\* The names a caller may supply: slots of the tree and one that is none.
InjNames == <<"w", "sub.w", "r", "x">>

\* The dicts over the names from position k on, each name bound to one of
\* the two tensors.
RECURSIVE NamedValues(_)
NamedValues(k) ==
    IF k > Len(InjNames) THEN {<<>>}
    ELSE LET rest == NamedValues(k + 1)
         IN rest \cup {<< <<InjNames[k], t>> >> \o d : t \in {4, 5}, d \in rest}

InitInj ==
    /\ opt = InjOwner
    /\ twin = InjOwner
    /\ last = [op |-> "init", new_params |-> <<>>, requires_grad |-> FALSE,
               is_buffer |-> FALSE, opt |-> InjOwner, num_found |-> 0,
               err |-> ""]
    /\ calls = 0
    /\ fed = {}
    /\ create_graph = FALSE

Inject ==
    /\ calls < MaxInjects
    /\ \E new_params \in NamedValues(1), rg \in BOOLEAN, ib \in BOOLEAN :
        LET r == set_all_parameters(opt.modules, opt.heap, new_params, rg, ib)
        IN /\ opt' = [heap |-> r.heap, modules |-> r.modules]
           /\ last' = [op |-> "set_all_parameters", new_params |-> new_params,
                       requires_grad |-> rg, is_buffer |-> ib, opt |-> opt,
                       num_found |-> r.num_found, err |-> r.err]
    /\ calls' = calls + 1
    /\ UNCHANGED <<twin, fed, create_graph>>

SpecInj == InitInj /\ [][Inject]_vars

(***************************************************************************)
(* The registry on its own: add_param_group and get_param_groups called on *)
(* a constructed optimizer with any groups.  last is the call and the      *)
(* optimizer before it.                                                    *)
(***************************************************************************)

RegNames == {"a", "sub.b"}

RegIds == {1, 2, 3}

\* Member lists of one or two named tensors, the names distinct.
MemberLists ==
    {<< <<n, i>> >> : n \in RegNames, i \in RegIds}
    \cup {<< <<ns[1], i>>, <<ns[2], j>> >> :
             ns \in {x \in RegNames \X RegNames : x[1] # x[2]},
             i \in RegIds, j \in RegIds}

\* The groups an owner may return: the member lists, a set, and a list with
\* a member that is no tensor.
GroupSpecs ==
    {[members |-> m, is_set |-> FALSE, hp |-> <<>>] : m \in MemberLists}
    \cup {[members |-> << <<"a", 1>> >>, is_set |-> TRUE, hp |-> <<>>],
          [members |-> << <<"a", NotTensor>> >>, is_set |-> FALSE, hp |-> <<>>]}

\* The flat lists an owner may return: one or two named values, and a list
\* with a group after a named value.
FlatLists ==
    {<<NamedValue(n, i)>> : n \in RegNames, i \in RegIds}
    \cup {<<NamedValue(ns[1], i), NamedValue(ns[2], j)>> :
             ns \in {x \in RegNames \X RegNames : x[1] # x[2]},
             i \in RegIds, j \in RegIds}

ParamLists ==
    {<<>>} \cup {<<g>> : g \in GroupSpecs}
    \cup {<<g1, g2>> : g1 \in GroupSpecs, g2 \in GroupSpecs}
    \cup FlatLists
    \cup {<<g, NamedValue("a", 1)>> : g \in GroupSpecs}

InitReg ==
    /\ opt = DifferentiableSGD(Owner(<<>>, <<>>),
                               HP(Const(1), Const(0), Const(0), Const(0), Const(0)),
                               FALSE)
    /\ twin = opt
    /\ last = [op |-> "init", group |-> <<>>, params |-> <<>>, opt |-> opt]
    /\ calls = 0
    /\ fed = {}
    /\ create_graph = FALSE

AddParamGroup ==
    /\ calls < MaxCalls
    /\ \E pg \in GroupSpecs :
        /\ opt' = add_param_group([opt EXCEPT !.err = ""], pg)
        /\ last' = [op |-> "add_param_group", group |-> pg, params |-> <<>>,
                    opt |-> opt]
    /\ calls' = calls + 1
    /\ UNCHANGED <<twin, fed, create_graph>>

GetParamGroups ==
    /\ calls < MaxCalls
    /\ \E params \in ParamLists :
        /\ opt' = get_param_groups([opt EXCEPT !.err = ""], params)
        /\ last' = [op |-> "get_param_groups", group |-> <<>>,
                    params |-> params, opt |-> opt]
    /\ calls' = calls + 1
    /\ UNCHANGED <<twin, fed, create_graph>>

NextReg == AddParamGroup \/ GetParamGroups

SpecReg == InitReg /\ [][NextReg]_vars

(***************************************************************************)
(* The state store: get_state and load_state among steps and forgets, on   *)
(* the two instances.  calls counts the calls of any kind; last holds, for *)
(* get_state, what it returned (out) and, for load_state, what was loaded. *)
(***************************************************************************)

\* The kinds of list a caller loads: a dict with a buffer for every name, a
\* dict without the name sub.b, and an empty list.
LoadKinds == {"full", "partial", "empty"}

\* The caller's list of the kind, its tensors (of the values 7 and 8, outside
\* every graph) allocated next to those of w.
Saved(w, kind) ==
    [heap |-> w.heap \o <<Tensor(7, FALSE, TRUE), Tensor(8, FALSE, TRUE)>>,
     state |-> IF kind = "full"
               THEN << << <<"a", Len(w.heap) + 1>>,
                          <<"sub.b", Len(w.heap) + 2>> >> >>
               ELSE IF kind = "partial"
               THEN << << <<"a", Len(w.heap) + 1>> >> >>
               ELSE <<>>]

StateStep ==
    /\ calls < MaxOps
    /\ opt.step_number < MaxSteps
    /\ \E grads \in GradLists(create_graph) :
        /\ opt' = step(opt, grads)
        /\ twin' = step(twin, grads)
        /\ last' = [op |-> "step", grads |-> grads, opt |-> opt, twin |-> twin,
                    fed |-> fed]
        /\ fed' = fed \cup
                {Positions(opt)[i][2] : i \in
                    {j \in DOMAIN grads :
                        /\ ~grads[j].none
                        /\ GroupHP(opt, Positions(opt)[j][1], "momentum",
                                   opt.step_number + 1) # 0}}
    /\ calls' = calls + 1
    /\ UNCHANGED create_graph

StateForget ==
    /\ calls < MaxOps
    /\ opt' = forget(opt)
    /\ twin' = forget(twin)
    /\ last' = [op |-> "forget", grads |-> <<>>, opt |-> opt, twin |-> twin,
                fed |-> fed]
    /\ calls' = calls + 1
    /\ UNCHANGED <<fed, create_graph>>

GetState ==
    /\ calls < MaxOps
    /\ opt' = get_state(opt).w
    /\ twin' = get_state(twin).w
    /\ last' = [op |-> "get_state", grads |-> <<>>, opt |-> opt, twin |-> twin,
                fed |-> fed,
                out |-> <<get_state(opt).out_state, get_state(twin).out_state>>]
    /\ calls' = calls + 1
    /\ UNCHANGED <<fed, create_graph>>

LoadState ==
    /\ calls < MaxOps
    /\ \E kind \in LoadKinds :
        /\ opt' = load_state([opt EXCEPT !.heap = Saved(opt, kind).heap],
                             Saved(opt, kind).state)
        /\ twin' = load_state([twin EXCEPT !.heap = Saved(twin, kind).heap],
                              Saved(twin, kind).state)
        /\ last' = [op |-> "load_state", grads |-> <<>>, opt |-> opt,
                    twin |-> twin, fed |-> fed,
                    loaded |-> <<Saved(opt, kind).state,
                                 Saved(twin, kind).state>>]
    /\ calls' = calls + 1
    /\ UNCHANGED <<fed, create_graph>>

NextState == StateStep \/ StateForget \/ GetState \/ LoadState

SpecState == Init /\ [][NextState]_vars

(***************************************************************************)
(* Construction on its own: DifferentiableSGD called with any              *)
(* hyperparameters, for a functional (opt) and an in-place (twin)          *)
(* instance.  last holds the hyperparameters of the call.                  *)
(***************************************************************************)

\* The hyperparameters a caller constructs with: constants below, at and
\* above 0, schedules, and no learning rate at all.
CtorHPs ==
    {HP(lr, momentum, dampening, weight_decay, nesterov) :
        lr \in {required, Const(-1), Const(0), Const(2), Linear(0)},
        momentum \in {Const(-1), Const(0), Const(1), Linear(0)},
        dampening \in {Const(0), Const(1), Linear(0)},
        weight_decay \in {Const(-1), Const(0), Const(1), Linear(0)},
        nesterov \in {Const(0), Const(1), Linear(0)}}

InitCtor ==
    /\ opt = DifferentiableSGD(Owner(<<>>, <<>>),
                               HP(Const(1), Const(0), Const(0), Const(0), Const(0)),
                               FALSE)
    /\ twin = DifferentiableSGD(Owner(<<>>, <<>>),
                                HP(Const(1), Const(0), Const(0), Const(0), Const(0)),
                                TRUE)
    /\ last = [op |-> "init", hps |-> <<>>]
    /\ calls = 0
    /\ fed = {}
    /\ create_graph = FALSE

Construct ==
    /\ calls < MaxCalls
    /\ \E hps \in CtorHPs :
        /\ opt' = DifferentiableSGD(Owner(<<>>, <<>>), hps, FALSE)
        /\ twin' = DifferentiableSGD(Owner(<<>>, <<>>), hps, TRUE)
        /\ last' = [op |-> "construct", hps |-> hps]
    /\ calls' = calls + 1
    /\ UNCHANGED <<fed, create_graph>>

SpecCtor == InitCtor /\ [][Construct]_vars

(***************************************************************************)
(* Adam on its own: an instance constructed with an initial step number    *)
(* and stepped with any gradients.  fed counts, per parameter, the steps   *)
(* in which its gradient was present; last is the call and the instance    *)
(* before it, twin the instance as it was constructed.                     *)
(***************************************************************************)

\* The initial step numbers a caller constructs with.
AdamInitialSteps == {0, 3}

\* The schedule step -> step, over the steps an instance can reach.
AdamLinear == Sched([s \in 1..(MaxSteps + 5) |-> s - 1])

\* Two groups of one parameter each: constants, and a scheduled learning
\* rate with amsgrad and weight decay.
AdamGroups ==
    <<[params |-> <<1>>, lr |-> Const(1), betas |-> <<Const(0), Const(0)>>,
       eps |-> Const(0), weight_decay |-> Const(0), amsgrad |-> Const(0)],
      [params |-> <<2>>, lr |-> AdamLinear, betas |-> <<Const(0), Const(0)>>,
       eps |-> Const(0), weight_decay |-> Const(1), amsgrad |-> Const(1)]>>

\* The gradient lists a caller passes to Adam.step.
AdamGradLists == [1..2 -> {None} \cup {Grad(v, FALSE) : v \in {-1, 1}}]

InitAdam ==
    \E n \in AdamInitialSteps :
        /\ opt = Adam(<<5, -3>>, AdamGroups, n)
        /\ twin = opt
        /\ opt.err = ""
        /\ last = [op |-> "init", grads |-> <<>>, opt |-> opt, fed |-> <<0, 0>>]
        /\ calls = 0
        /\ fed = <<0, 0>>
        /\ create_graph = FALSE

AdamStepCall ==
    /\ calls < MaxSteps
    /\ \E grads \in AdamGradLists :
        /\ opt' = AdamStep(opt, grads)
        /\ last' = [op |-> "step", grads |-> grads, opt |-> opt, fed |-> fed]
        /\ fed' = [i \in DOMAIN fed |->
                      IF grads[i].none THEN fed[i] ELSE fed[i] + 1]
    /\ calls' = calls + 1
    /\ UNCHANGED <<twin, create_graph>>

SpecAdam == InitAdam /\ [][AdamStepCall]_vars

(***************************************************************************)
(* What a call is expected to do, in terms of the values before it         *)
(***************************************************************************)

HasBuf(w, name) ==
    DictHas(w.state, name) /\ DictHas(DictGet(w.state, name), "momentum_buffer")

BufId(w, name) == DictGet(DictGet(w.state, name), "momentum_buffer")

BufVal(w, name) == w.heap[BufId(w, name)].val

ParamVal(w, name) == w.heap[SlotAt(w.modules, name)].val

\* The numeric content of an instance: per position the parameter's value
\* and the momentum buffer's, if there is one.
NumView(w) ==
    [i \in DOMAIN Positions(w) |->
        [param |-> ParamVal(w, Positions(w)[i][2]),
         buf |-> IF HasBuf(w, Positions(w)[i][2])
                 THEN <<BufVal(w, Positions(w)[i][2])>> ELSE <<>>]]

\* The two instances before and after the last call.
Runs == {<<last.opt, opt>>, <<last.twin, twin>>}

PosGroup(i) == Positions(opt)[i][1]

PosName(i) == Positions(opt)[i][2]

\* The hyperparameter h that applies to position i in the last step.
PosHP(i, h) == GroupHP(opt, PosGroup(i), h, calls)

(***************************************************************************)
(* Claims                                                                  *)
(***************************************************************************)

\* C1: the step counter is 0 after construction and every step call raises
\* it by exactly 1, so that the k-th call runs with counter k; each of the
\* hyperparameters resolved in that call (lr, momentum, dampening,
\* weight_decay twice, nesterov, for every group) is read at the counter's
\* incremented value and is the schedule's value there.
C1_StepCounter ==
    \A run \in Runs :
        /\ run[2].step_number = calls
        /\ last.op = "init" => run[2].step_number = 0
        /\ last.op = "step" =>
            /\ run[2].step_number = run[1].step_number + 1
            /\ Len(run[2].resolved) = Len(run[2].layout)
            /\ \A g \in DOMAIN run[2].resolved :
                 \A h \in HPNames \cup {"wd"} :
                    /\ run[2].resolved[g][h].at = run[1].step_number + 1
                    /\ run[2].resolved[g][h].val =
                           GroupHP(run[1], g,
                                   IF h = "wd" THEN "weight_decay" ELSE h,
                                   run[1].step_number + 1)

\* C1's case: a second step in which a schedule of the learning rate is
\* resolved, to a value other than the first step's.
C1_Witness ==
    /\ last.op = "step"
    /\ calls = 2
    /\ callable(opt.param_groups[1].hp.lr)
    /\ opt.resolved[1].lr.val = 2
    /\ last.opt.resolved[1].lr.val = 1

\* C2: the functional and the in-place instance, constructed alike and fed
\* the same gradient lists, hold the same parameter values and the same
\* momentum-buffer values after every call; where momentum and weight decay
\* are 0, the value after a step is param - lr * gradient.
C2_ModesAgree ==
    /\ NumView(opt) = NumView(twin)
    /\ last.op = "step" =>
         \A i \in DOMAIN last.grads :
            (/\ ~last.grads[i].none
             /\ PosHP(i, "momentum") = 0
             /\ PosHP(i, "weight_decay") = 0)
            => \A run \in Runs :
                  ParamVal(run[2], PosName(i)) =
                      ParamVal(run[1], PosName(i))
                          - PosHP(i, "lr") * last.grads[i].val

\* C2's case: a second step with momentum, dampening and weight decay at
\* work on a parameter that already has a buffer.
C2_Witness ==
    /\ last.op = "step"
    /\ calls = 2
    /\ ~last.grads[1].none
    /\ HasBuf(last.twin, "a")
    /\ PosHP(1, "momentum") # 0
    /\ PosHP(1, "dampening") # 0
    /\ PosHP(1, "weight_decay") # 0
    /\ ParamVal(twin, "a") # ParamVal(last.twin, "a")

\* C3: with momentum not 0, the buffer of a name becomes g on the first step
\* that feeds the name a present gradient g (no dampening), and
\* momentum * buf + (1 - dampening) * g on every later one; the direction is
\* g + momentum * buf with Nesterov and buf without, and the buffer is what
\* the state holds under the name afterwards.
C3_MomentumRecurrence ==
    last.op = "step" =>
        \A i \in DOMAIN last.grads :
            (~last.grads[i].none /\ PosHP(i, "momentum") # 0)
            => \A run \in Runs :
                 LET g == last.grads[i].val
                     buf == IF PosName(i) \notin last.fed THEN g
                            ELSE PosHP(i, "momentum") * BufVal(run[1], PosName(i))
                                 + (1 - PosHP(i, "dampening")) * g
                     d == IF PosHP(i, "nesterov") # 0
                          THEN g + PosHP(i, "momentum") * buf ELSE buf
                     p == ParamVal(run[1], PosName(i))
                 IN /\ HasBuf(run[2], PosName(i))
                    /\ BufVal(run[2], PosName(i)) = buf
                    /\ ParamVal(run[2], PosName(i)) =
                          p - PosHP(i, "lr") * d
                            - PosHP(i, "weight_decay") * PosHP(i, "lr") * p

\* C3's case: the first step on the parameter 5 with gradient 2, lr 1 and
\* momentum: the buffer is 2 and the parameter 3.
C3_Witness ==
    /\ last.op = "step"
    /\ calls = 1
    /\ ParamVal(last.opt, "a") = 5
    /\ ~last.grads[1].none /\ last.grads[1].val = 2
    /\ PosHP(1, "lr") = 1
    /\ PosHP(1, "momentum") # 0
    /\ BufVal(opt, "a") = 2
    /\ ParamVal(opt, "a") = 3

\* C4: a step of the functional instance changes the content of no tensor
\* that existed before it; the parameter it installs for a present gradient
\* and the buffer it stores under the name are new tensors.
C4_FunctionalNoMutation ==
    last.op = "step" =>
        /\ Len(opt.heap) >= Len(last.opt.heap)
        /\ \A id \in DOMAIN last.opt.heap :
              opt.heap[id].val = last.opt.heap[id].val
        /\ \A i \in DOMAIN last.grads :
              ~last.grads[i].none =>
                /\ SlotAt(opt.modules, PosName(i)) \notin DOMAIN last.opt.heap
                /\ PosHP(i, "momentum") # 0 =>
                     /\ HasBuf(opt, PosName(i))
                     /\ BufId(opt, PosName(i)) \notin DOMAIN last.opt.heap

\* C4's case: a functional step with momentum on a parameter whose buffer
\* already exists.
C4_Witness ==
    /\ last.op = "step"
    /\ ~last.grads[1].none
    /\ PosHP(1, "momentum") # 0
    /\ HasBuf(last.opt, "a")
    /\ BufVal(opt, "a") # BufVal(last.opt, "a")

\* C5: a step with None at position i completes; the i-th parameter keeps
\* its tensor and its value, its buffer is neither created nor changed, and
\* every position j with a gradient is updated with the j-th gradient.
C5_AbsentGradient ==
    last.op = "step" =>
        \A run \in Runs :
            /\ run[2].err = ""
            /\ run[2].step_number = run[1].step_number + 1
            /\ \A i \in DOMAIN last.grads :
                 LET n == PosName(i)
                     g == last.grads[i].val
                     p == ParamVal(run[1], n)
                 IN IF last.grads[i].none
                    THEN /\ SlotAt(run[2].modules, n) = SlotAt(run[1].modules, n)
                         /\ ParamVal(run[2], n) = p
                         /\ HasBuf(run[2], n) = HasBuf(run[1], n)
                         /\ HasBuf(run[1], n) =>
                              /\ BufId(run[2], n) = BufId(run[1], n)
                              /\ BufVal(run[2], n) = BufVal(run[1], n)
                    ELSE LET m == PosHP(i, "momentum")
                             d == IF m = 0 THEN g
                                  ELSE IF PosHP(i, "nesterov") # 0
                                  THEN g + m * BufVal(run[2], n)
                                  ELSE BufVal(run[2], n)
                         IN /\ m # 0 =>
                                 /\ HasBuf(run[2], n)
                                 /\ BufVal(run[2], n) =
                                     IF HasBuf(run[1], n)
                                     THEN m * BufVal(run[1], n)
                                          + (1 - PosHP(i, "dampening")) * g
                                     ELSE g
                            /\ ParamVal(run[2], n) =
                                  p - PosHP(i, "lr") * d
                                    - PosHP(i, "weight_decay") * PosHP(i, "lr") * p

\* C5's case: None for the first parameter, which has a buffer, and a
\* gradient for the second.
C5_Witness ==
    /\ last.op = "step"
    /\ last.grads[1].none
    /\ ~last.grads[2].none
    /\ HasBuf(last.opt, "a")
    /\ ParamVal(opt, "sub.b") # ParamVal(last.opt, "sub.b")

\* C6: after forget() every momentum buffer the state holds is detached (it
\* is a leaf that carries no derivation) with its content unchanged, and
\* every current parameter is a leaf that requires grad.
C6_ForgetDetaches ==
    last.op = "forget" =>
        \A run \in Runs :
            \A i \in DOMAIN Positions(run[2]) :
                LET n == Positions(run[2])[i][2]
                    p == run[2].heap[SlotAt(run[2].modules, n)]
                IN /\ p.is_leaf /\ p.requires_grad
                   /\ HasBuf(run[2], n) =>
                        /\ run[2].heap[BufId(run[2], n)].is_leaf
                        /\ ~run[2].heap[BufId(run[2], n)].requires_grad
                        /\ BufVal(run[2], n) = BufVal(run[1], n)

\* C7: forget() changes neither the step counter nor the value of any
\* parameter or buffer, and a step after forget() yields the values the same
\* step yields without it.
C7_ForgetNumericNoOp ==
    last.op = "forget" =>
        \A run \in Runs :
            /\ run[2].err = ""
            /\ run[2].step_number = run[1].step_number
            /\ NumView(run[2]) = NumView(run[1])
            /\ run[2].step_number < MaxSteps =>
                 \A grads \in GradLists(create_graph) :
                    /\ NumView(step(run[2], grads)) = NumView(step(run[1], grads))
                    /\ step(run[2], grads).step_number
                           = step(run[1], grads).step_number

\* C7's case: forget() between two steps, on buffers that carry a derivation.
C7_Witness ==
    /\ last.op = "forget"
    /\ calls >= 1 /\ calls < MaxSteps
    /\ HasBuf(opt, "a") /\ HasBuf(twin, "a")
    /\ ~last.opt.heap[BufId(last.opt, "a")].is_leaf
    /\ ~last.opt.heap[SlotAt(last.opt.modules, "a")].is_leaf

\* The slot table of a module that is_buffer selects.
Table(module, is_buffer) ==
    IF is_buffer THEN module._buffers ELSE module._parameters

\* The slots <<module, index>> of the selected kind whose dotted path is key.
SlotsNamed(modules, is_buffer, key) ==
    UNION {{<<m, i>> : i \in
                {j \in DOMAIN Table(modules[m], is_buffer) :
                    Pref(modules[m].prefix)
                        \o Table(modules[m], is_buffer)[j][1] = key}} :
           m \in DOMAIN modules}

\* C8: when set_all_parameters returns normally, the discovery count is the
\* number of named values, every name has exactly one slot of the selected
\* kind and that slot holds the value supplied under the name; when some
\* name has no slot of the selected kind, the call fails its assertion.
C8_InjectorInvariant ==
    last.op = "set_all_parameters" =>
        LET keys == DictKeys(last.new_params)
            slots(k) == SlotsNamed(last.opt.modules, last.is_buffer, k)
        IN /\ last.err = "" =>
                /\ last.num_found = Len(last.new_params)
                /\ \A k \in keys :
                      /\ Cardinality(slots(k)) = 1
                      /\ \A sl \in slots(k) :
                            Table(opt.modules[sl[1]], last.is_buffer)[sl[2]][2]
                                = DictGet(last.new_params, k)
           /\ (\E k \in keys : slots(k) = {}) => last.err = "AssertionError"

\* C8's case: two parameters, one of the root and one of the submodule,
\* installed by a call that returns normally.
C8_Witness ==
    /\ last.op = "set_all_parameters"
    /\ last.err = ""
    /\ ~last.is_buffer
    /\ DictKeys(last.new_params) = {"w", "sub.w"}
    /\ SlotAt(opt.modules, "w") = 4
    /\ SlotAt(opt.modules, "sub.w") = 5

\* The tensors and the names that are members of the groups.
GroupIds(param_groups) ==
    UNION {{param_groups[g].members[k][2] : k \in DOMAIN param_groups[g].members} :
           g \in DOMAIN param_groups}

GroupNames(param_groups) ==
    UNION {{param_groups[g].members[k][1] : k \in DOMAIN param_groups[g].members} :
           g \in DOMAIN param_groups}

\* A group that add_param_group rejects for no other reason than a duplicate.
Valid(param_group) ==
    /\ ~param_group.is_set
    /\ \A k \in DOMAIN param_group.members :
          param_group.members[k][2] # NotTensor

\* C9: after a successful registration no tensor is a member of two
\* registered groups, and add_param_group raises ValueError for a group with
\* a member that is, by identity, already a member of a registered group,
\* whatever its name.
C9_GroupsDisjoint ==
    /\ (last.op \in {"add_param_group", "get_param_groups"} /\ opt.err = "")
       => \A g1 \in DOMAIN opt.param_groups, g2 \in DOMAIN opt.param_groups :
             g1 # g2 => GroupIds(<<opt.param_groups[g1]>>)
                           \cap GroupIds(<<opt.param_groups[g2]>>) = {}
    /\ (/\ last.op = "add_param_group"
        /\ Valid(last.group)
        /\ GroupIds(<<last.group>>) \cap GroupIds(last.opt.param_groups) # {})
       => opt.err = "ValueError"

\* C10 as stated: add_param_group raises ValueError for a group whose names
\* collide with those of a registered group, whatever the values, and does
\* not register it.
C10_NameCollision ==
    (/\ last.op = "add_param_group"
     /\ Valid(last.group)
     /\ GroupNames(<<last.group>>) \cap GroupNames(last.opt.param_groups) # {})
    => /\ opt.err = "ValueError"
       /\ opt.param_groups = last.opt.param_groups

\* C10, amended: add_param_group raises ValueError for an otherwise valid
\* group with a member that has both the name and the value (by identity) of
\* a member of a registered group, and does not register it; a group that
\* shares names only, bound to tensors of no registered group, is registered.
C10_PairCollision ==
    (last.op = "add_param_group" /\ Valid(last.group)) =>
        /\ (\E g \in DOMAIN last.opt.param_groups :
               SeqToSet(last.group.members)
                   \cap SeqToSet(last.opt.param_groups[g].members) # {})
           => /\ opt.err = "ValueError"
              /\ opt.param_groups = last.opt.param_groups
        /\ GroupIds(<<last.group>>) \cap GroupIds(last.opt.param_groups) = {}
           => /\ opt.err = ""
              /\ Len(opt.param_groups) = Len(last.opt.param_groups) + 1
              /\ opt.param_groups[Len(opt.param_groups)].members
                    = last.group.members

\* C10's case: a group with a member registered before, name and value, is
\* rejected.
C10_Witness ==
    /\ last.op = "add_param_group"
    /\ <<"a", 1>> \in SeqToSet(last.group.members)
    /\ <<"a", 1>> \in SeqToSet(last.opt.param_groups[1].members)
    /\ Len(last.group.members) = 2
    /\ opt.err = "ValueError"

\* The hyperparameter h that applies to position i in a step from the
\* instance w.
NextHP(w, i, h) ==
    GroupHP(w, Positions(w)[i][1], h, w.step_number + 1)

\* Whether a step from w with the gradients writes the buffer of position i.
Fed(w, grads, i) == ~grads[i].none /\ NextHP(w, i, "momentum") # 0

NothingCreated(w) ==
    /\ w.param_groups = <<>>
    /\ w.step_number = 0
    /\ w.state = <<>> /\ w.state_tup = <<>>

\* C12: constructing with nesterov true and a constant momentum that is 0 or
\* negative, or with nesterov true and a dampening other than the constant
\* 0, raises ValueError, before any group is derived from the module.
C12_NesterovValidation ==
    (/\ last.op = "construct"
     /\ ~callable(last.hps.nesterov) /\ last.hps.nesterov.v # 0
     /\ \/ ~callable(last.hps.momentum) /\ last.hps.momentum.v <= 0
        \/ last.hps.dampening # Const(0))
    => \A w \in {opt, twin} : w.err = "ValueError" /\ NothingCreated(w)

\* C12's case: Nesterov with a positive momentum and a dampening of 1, every
\* other hyperparameter in its range, is rejected.
C12_Witness ==
    /\ last.op = "construct"
    /\ last.hps = HP(Const(2), Const(1), Const(1), Const(0), Const(1))
    /\ opt.err = "ValueError"
    /\ opt.param_groups = <<>>

\* C13: constructing with a negative constant learning rate, momentum or
\* weight decay raises ValueError, whatever the other hyperparameters are,
\* and creates no groups, no step counter other than 0 and no state.
C13_NegativeRejected ==
    (/\ last.op = "construct"
     /\ \/ ~callable(last.hps.lr) /\ last.hps.lr # required /\ last.hps.lr.v < 0
        \/ ~callable(last.hps.momentum) /\ last.hps.momentum.v < 0
        \/ ~callable(last.hps.weight_decay) /\ last.hps.weight_decay.v < 0)
    => \A w \in {opt, twin} : w.err = "ValueError" /\ NothingCreated(w)

\* C13's case: a negative weight decay among schedules, with Nesterov
\* a schedule as well, is rejected.
C13_Witness ==
    /\ last.op = "construct"
    /\ last.hps = HP(Linear(0), Linear(0), Linear(0), Const(-1), Linear(0))
    /\ twin.err = "ValueError"
    /\ twin.param_groups = <<>>

\* C14: a parameter whose momentum resolved to 0 in every step so far has no
\* momentum buffer in the state store, after any steps and forgets; and a
\* step in which the momentum resolves to 0 moves the parameter along the
\* raw gradient and leaves the state store's entry of the name as it was.
C14_ZeroMomentumNoBuffer ==
    \A run \in Runs :
        \A i \in DOMAIN Positions(run[2]) :
            /\ (\A k \in 1..calls : GroupHP(opt, PosGroup(i), "momentum", k) = 0)
               => ~HasBuf(run[2], PosName(i))
            /\ (/\ last.op = "step"
                /\ ~last.grads[i].none
                /\ PosHP(i, "momentum") = 0)
               => /\ ParamVal(run[2], PosName(i)) =
                        ParamVal(run[1], PosName(i))
                          - PosHP(i, "lr") * last.grads[i].val
                          - PosHP(i, "weight_decay") * PosHP(i, "lr")
                                * ParamVal(run[1], PosName(i))
                  /\ HasBuf(run[2], PosName(i)) = HasBuf(run[1], PosName(i))
                  /\ HasBuf(run[1], PosName(i)) =>
                        /\ BufId(run[2], PosName(i)) = BufId(run[1], PosName(i))
                        /\ BufVal(run[2], PosName(i)) = BufVal(run[1], PosName(i))

\* C14's case: the second of two steps with momentum 0 and a present
\* gradient for a parameter, which moves and has no buffer; in the same step
\* the momentum of the other parameter, which has a buffer from the first
\* step, resolves to 0 as well.
C14_Witness ==
    /\ last.op = "step"
    /\ calls = 2
    /\ ~last.grads[1].none
    /\ \A k \in 1..2 : GroupHP(opt, 1, "momentum", k) = 0
    /\ ParamVal(opt, "a") # ParamVal(last.opt, "a")
    /\ ~HasBuf(opt, "a") /\ ~HasBuf(twin, "a")
    /\ ~last.grads[2].none
    /\ GroupHP(opt, 2, "momentum", 2) = 0
    /\ HasBuf(last.opt, "sub.b")

\* C15: when get_param_groups or add_param_group rejects a group, the call
\* raises and the registered groups are what they were before the call.
C15_RegistrationAtomic ==
    (last.op \in {"add_param_group", "get_param_groups"} /\ opt.err # "")
    => opt.param_groups = last.opt.param_groups

\* Whether what the owner returned is a flat list of named values.
IsFlat(params) ==
    /\ Len(params) > 0
    /\ \A k \in DOMAIN params : ~IsDict(params[k])

\* C17: when the owner returns a non-empty flat list of named values,
\* get_param_groups registers exactly one group, its members those named
\* values in their order and its hyperparameters the defaults.
C17_FlatListOneGroup ==
    (last.op = "get_param_groups" /\ IsFlat(last.params))
    => /\ opt.err = ""
       /\ Len(opt.param_groups) = 1
       /\ opt.param_groups[1].members =
             [k \in DOMAIN last.params |->
                 <<last.params[k].name, last.params[k].value>>]
       /\ opt.param_groups[1].hp = opt.defaults

\* The names registered in the groups of w.
Registered(w) ==
    UNION {{w.param_groups[g].members[k][1] :
               k \in DOMAIN w.param_groups[g].members} :
           g \in DOMAIN w.param_groups}

\* C16: get_state() succeeds in every state and returns a dict with exactly
\* one entry for every registered name, the momentum buffer the state holds
\* for the name; and after load_state(s), get_state() returns the buffers of
\* s for every registered name.
C16_GetStateTotal ==
    /\ last.op = "get_state" =>
         \A r \in 1..2 :
            LET w == <<opt, twin>>[r]
                out == last.out[r]
            IN /\ w.err = ""
               /\ DictKeys(out) = Registered(w)
               /\ \A n \in Registered(w) :
                     HasBuf(w, n) /\ DictGet(out, n) = BufId(w, n)
    /\ (last.op = "load_state" /\ opt.err = "" /\ twin.err = "") =>
         \A r \in 1..2 :
            LET w == <<opt, twin>>[r]
                got == get_state(w)
            IN /\ got.w.err = ""
               /\ \A n \in Registered(w) :
                     DictGet(got.out_state, n) = DictGet(last.loaded[r][1], n)

\* C19: get_state() changes neither the step counter nor the outcome of
\* a later step: for every gradient list, the step after get_state() leaves
\* the parameter and buffer values that the same step leaves without it.
C19_GetStateObserver ==
    last.op = "get_state" =>
        \A run \in Runs :
            /\ run[2].step_number = run[1].step_number
            /\ run[2].step_number < MaxSteps =>
                 \A grads \in GradLists(create_graph) :
                    NumView(step(run[2], grads)) = NumView(step(run[1], grads))

Installed ==
    {DictGet(last.new_params, key) :
        key \in {k \in DictKeys(last.new_params) :
                    SlotsNamed(last.opt.modules, last.is_buffer, k) # {}}}

\* C20: set_all_parameters changes only the slots whose dotted path is a key
\* of named_values, and only in the tables of the kind is_buffer selects;
\* every other slot of either kind keeps its tensor, no tensor's content
\* changes, with requires_grad false (or for buffers) no flag of any tensor
\* changes, and otherwise only the flags of installed values may.
C20_InjectionFrame ==
    last.op = "set_all_parameters" =>
        /\ \A m \in DOMAIN opt.modules :
              /\ opt.modules[m].prefix = last.opt.modules[m].prefix
              /\ \A ib \in BOOLEAN :
                    LET new == Table(opt.modules[m], ib)
                        old == Table(last.opt.modules[m], ib)
                    IN /\ DOMAIN new = DOMAIN old
                       /\ \A i \in DOMAIN old :
                             /\ new[i][1] = old[i][1]
                             /\ (\/ ib # last.is_buffer
                                 \/ ~DictHas(last.new_params,
                                             Pref(opt.modules[m].prefix)
                                                 \o old[i][1]))
                                => new[i][2] = old[i][2]
        /\ DOMAIN opt.heap = DOMAIN last.opt.heap
        /\ \A id \in DOMAIN opt.heap :
              /\ opt.heap[id].val = last.opt.heap[id].val
              /\ (~last.requires_grad \/ last.is_buffer \/ id \notin Installed)
                 => opt.heap[id] = last.opt.heap[id]

\* C20's case: a call for parameters with requires_grad false that installs
\* a derived value under sub.w and leaves the parameter w of the root, the
\* buffer r and every flag as they were.
C20_Witness ==
    /\ last.op = "set_all_parameters"
    /\ ~last.requires_grad /\ ~last.is_buffer
    /\ last.new_params = << <<"sub.w", 5>> >>
    /\ last.err = ""
    /\ DictGet(opt.modules[2]._parameters, "w") = 5
    /\ DictGet(opt.modules[1]._parameters, "w") = 1
    /\ DictGet(opt.modules[1]._buffers, "r") = 2
    /\ opt.heap[5] = Tensor(5, TRUE, FALSE)

====
